---- MODULE Spec2Model ----
(***************************************************************************)
(* Model of src/src/original_osm_features.py: the batch pipeline that      *)
(* turns OSM vector features into per-buffer covariates.                   *)
(*                                                                         *)
(* Geometry lives on an integer grid.  A geometry is a set (buffer         *)
(* polygon) or a sequence (feature: point, line vertices, polygon cells)   *)
(* of grid points.  Two geometries intersect when they share a grid point. *)
(* Floating point cells of the data frames are exact fractions <<n, d>>;   *)
(* <<0, 0>> is NaN and <<1, 0>> is infinity.                               *)
(* Data frame positions and RangeIndex labels are 1-based here where       *)
(* pandas is 0-based; the shift is uniform.                                *)
(***************************************************************************)
EXTENDS Integers, Sequences, FiniteSets, TLC

\* ------------------------------------------------------------------ bounds
NumBuffers == 2
MaxFeatures == 2

\* ------------------------------------------------------- numeric helpers
RECURSIVE GCD(_, _)
GCD(a, b) == IF b = 0 THEN a ELSE GCD(b, a % b)

NaN == <<0, 0>>
Inf == <<1, 0>>
Num(x) == <<x, 1>>

Norm(q) ==
    IF q[2] = 0 THEN (IF q[1] = 0 THEN NaN ELSE Inf)
    ELSE LET g == GCD(q[1], q[2]) IN <<q[1] \div g, q[2] \div g>>

IsNaN(q) == q = NaN

Add(a, b) ==
    IF IsNaN(a) \/ IsNaN(b) THEN NaN
    ELSE IF a = Inf \/ b = Inf THEN Inf
    ELSE Norm(<<a[1] * b[2] + b[1] * a[2], a[2] * b[2]>>)

Div(a, b) ==
    IF IsNaN(a) \/ IsNaN(b) THEN NaN
    ELSE IF a = Inf THEN (IF b = Inf THEN NaN ELSE Inf)
    ELSE IF b = Inf THEN Num(0)
    ELSE Norm(<<a[1] * b[2], a[2] * b[1]>>)

Less(a, b) == a[1] * b[2] < b[1] * a[2]

Abs(x) == IF x < 0 THEN -x ELSE x

RECURSIVE Flatten(_)
Flatten(ss) == IF ss = <<>> THEN <<>> ELSE Head(ss) \o Flatten(Tail(ss))

RECURSIVE SumSeq(_)
SumSeq(s) == IF s = <<>> THEN Num(0) ELSE Add(Head(s), SumSeq(Tail(s)))

RECURSIVE SumInts(_)
SumInts(s) == IF s = <<>> THEN 0 ELSE Head(s) + SumInts(Tail(s))

\* count(axis=1) in place of sum(axis=1)
SumSkipNaCount(s) == Num(Len(SelectSeq(s, LAMBDA v : ~IsNaN(v))))

\* pandas sum(axis=1): missing cells are skipped, an empty selection gives 0
SumSkipNa(s) == SumSeq(SelectSeq(s, LAMBDA v : ~IsNaN(v)))

RECURSIVE MinSeq(_)
MinSeq(s) ==
    IF Len(s) = 1 THEN Head(s)
    ELSE LET m == MinSeq(Tail(s)) IN IF Less(m, Head(s)) THEN m ELSE Head(s)

RECURSIVE MaxSeq(_)
MaxSeq(s) ==
    IF Len(s) = 1 THEN Head(s)
    ELSE LET m == MaxSeq(Tail(s)) IN IF Less(Head(s), m) THEN m ELSE Head(s)

\* max(axis=1) in place of min(axis=1)
MaxSkipNa(s) ==
    LET t == SelectSeq(s, LAMBDA v : ~IsNaN(v))
    IN IF t = <<>> THEN NaN ELSE MaxSeq(t)

\* pandas min(axis=1): missing cells are skipped, an empty selection gives NaN
MinSkipNa(s) ==
    LET t == SelectSeq(s, LAMBDA v : ~IsNaN(v))
    IN IF t = <<>> THEN NaN ELSE MinSeq(t)

Range(s) == {s[i] : i \in 1..Len(s)}

Perms(S) ==
    {p \in [1..Cardinality(S) -> S] : \A i, j \in 1..Cardinality(S) : p[i] = p[j] => i = j}

SeqsUpTo(S, n) == UNION {[1..k -> S] : k \in 0..n}

\* ------------------------------------------------------------- geometry
UTMScale == 2
FalseEasting == 5

\* to_crs(EPSG:<utm>) of one coordinate pair: degrees to projected units
ToUTM(p) == <<FalseEasting + UTMScale * p[1], UTMScale * p[2]>>

\* to_crs("EPSG:4326") of one coordinate pair: projected units to degrees
FromUTM(p) == <<(p[1] - FalseEasting) \div UTMScale, p[2] \div UTMScale>>

RECURSIVE SumCoord(_, _)
SumCoord(S, k) ==
    IF S = {} THEN 0
    ELSE LET q == CHOOSE q \in S : TRUE IN q[k] + SumCoord(S \ {q}, k)

\* GeoSeries.area of a polygon given by its projected cells
Area(cells) == Cardinality(cells) * UTMScale * UTMScale

\* GeoSeries.centroid of a polygon given by its cells
Centroid(cells) ==
    <<SumCoord(cells, 1) \div Cardinality(cells), SumCoord(cells, 2) \div Cardinality(cells)>>

\* GeoSeries.length of a line given by its projected vertices
RoadLength(line) ==
    SumInts([i \in 1..(Len(line) - 1) |->
        Abs(line[i + 1][1] - line[i][1]) + Abs(line[i + 1][2] - line[i][2])])

\* bounding rectangle <<minx, miny, maxx, maxy>> of a non-empty point set
BBox(cells) ==
    <<CHOOSE x \in {p[1] : p \in cells} : \A p \in cells : x <= p[1],
      CHOOSE y \in {p[2] : p \in cells} : \A p \in cells : y <= p[2],
      CHOOSE x \in {p[1] : p \in cells} : \A p \in cells : x >= p[1],
      CHOOSE y \in {p[2] : p \in cells} : \A p \in cells : y >= p[2]>>

BBoxIntersects(a, b) ==
    a[1] <= b[3] /\ b[1] <= a[3] /\ a[2] <= b[4] /\ b[2] <= a[4]

\* true geometric intersection of a buffer polygon and a feature geometry
Intersects(poly, geom) == poly \cap Range(geom) # {}

\* the metric of the ball tree; a grid stand-in for the great-circle distance
Haversine(p, q) == Abs(p[1] - q[1]) + Abs(p[2] - q[2])

\* a fixed-radius buffer polygon around a survey location
BufferPolygon(c) ==
    {c, <<c[1] - 1, c[2]>>, <<c[1] + 1, c[2]>>, <<c[1], c[2] - 1>>, <<c[1], c[2] + 1>>}

\* ------------------------------------------------------------ inputs
Centres == {<<2, 2>>, <<4, 2>>}

\* the buffer files read: the survey locations of the rows, listed west to east
BufferLayouts ==
    {c \in [1..NumBuffers -> Centres] : \A i, j \in 1..NumBuffers : i < j => c[i][1] <= c[j][1]}

NA == "NaN"
RawTypes == {"t1", "t2", NA}

\* feature geometries: one in a corner of the bounding rectangle of the buffer
\* around <<2, 2>> but outside every buffer polygon, one inside both polygons
PointGeoms == {<< <<1, 1>> >>, << <<3, 2>> >>}
PolyGeoms == {<< <<1, 1>> >>, << <<3, 2>>, <<3, 3>> >>}
LineGeoms == {<< <<1, 1>>, <<1, 0>> >>, << <<3, 2>>, <<3, 3>>, <<3, 4>> >>}

CountFamilies == {"pois", "traffic", "transport"}
GeomsOf(f) ==
    IF f \in CountFamilies THEN PointGeoms
    ELSE IF f = "buildings" THEN PolyGeoms ELSE LineGeoms

\* the crosswalk csv files this model reads: one row per type; two rows for
\* t1 and none for t2; the "0" sentinel for t1 and no row for t2
Crosswalks ==
    { << [type |-> "t1", group |-> "g1"], [type |-> "t2", group |-> "g2"] >>,
      << [type |-> "t1", group |-> "g1"], [type |-> "t1", group |-> "g2"] >>,
      << [type |-> "t1", group |-> "0"] >> }

GeomId(i) == 100 + i
OsmId(k) == 10 * k

\* gpd.read_file of a feature shapefile: rows of (osm_id, fclass, geometry)
RawFrames(f) ==
    {[k \in 1..Len(s) |-> [osm_id |-> OsmId(k), fclass |-> s[k][1], geometry |-> s[k][2]]] :
        s \in SeqsUpTo(RawTypes \X GeomsOf(f), MaxFeatures)}

\* ------------------------------------------------------- data frames
\* A buffer-keyed frame is [cols |-> sequence of column names,
\* rows |-> sequence of [idx |-> index label, val |-> column name -> cell]].
\* A column name "<group>_<family>_<stat>" is the tuple <<group, family, stat>>.
EmptyFrame == [cols |-> <<>>, rows |-> <<>>]

GeomIdCol == <<"geom_id">>
BufferCols ==
    << GeomIdCol, <<"geometry">>, <<"buffer_area">>, <<"longitude">>, <<"latitude">> >>

\* "_<family>_" in column name
IsFamilyCol(c, f) == Len(c) = 3 /\ c[2] = f

\* column name ends with "_<family>_<stat>"
EndsWith(c, f, stat) == Len(c) = 3 /\ c[2] = f /\ c[3] = stat

\* frame[cols]
Project(frame, cols) ==
    [cols |-> cols,
     rows |-> [i \in 1..Len(frame.rows) |->
                 [idx |-> frame.rows[i].idx,
                  val |-> [c \in Range(cols) |-> frame.rows[i].val[c]]]]]

\* frame[name] = cells, one cell per row
WithColumn(frame, name, cells) ==
    [cols |-> IF name \in Range(frame.cols) THEN frame.cols ELSE Append(frame.cols, name),
     rows |-> [i \in 1..Len(frame.rows) |->
                 [idx |-> frame.rows[i].idx,
                  val |-> (name :> cells[i]) @@ frame.rows[i].val]]]

\* the rows of a frame as a sequence of column name -> cell functions
Vals(frame) == [i \in 1..Len(frame.rows) |-> frame.rows[i].val]

\* the cells of a row under the given columns, in column order
Cells(val, cols) == [k \in 1..Len(cols) |-> val[cols[k]]]

\* one row of buffers_gdf after lines 78-86: area and centroid are taken while
\* the geometry is in the projected CRS, then the geometry goes back to WGS84
BufferRow(i, c) ==
    LET utm == {ToUTM(p) : p \in BufferPolygon(c)}
    IN (GeomIdCol :> GeomId(i))
       @@ (<<"geometry">> :> {FromUTM(q) : q \in utm})
       @@ (<<"buffer_area">> :> Area(utm))
       @@ (<<"longitude">> :> Centroid(utm)[1])
       @@ (<<"latitude">> :> Centroid(utm)[2])

\* the same merge with how="inner"
MergeAggInner(frame, agg, aggcols) ==
    [cols |-> frame.cols \o aggcols,
     rows |-> Flatten([i \in 1..Len(frame.rows) |->
        LET r == frame.rows[i]
            m == SelectSeq(agg, LAMBDA a : a.cluster = r.idx)
        IN [j \in 1..Len(m) |-> [idx |-> r.idx, val |-> r.val @@ m[j].val]]])]

\* buffers_gdf.merge(bquery_agg, left_index=True, right_on="cluster", how="left")
MergeAgg(frame, agg, aggcols) ==
    [cols |-> frame.cols \o aggcols,
     rows |-> Flatten([i \in 1..Len(frame.rows) |->
        LET r == frame.rows[i]
            m == SelectSeq(agg, LAMBDA a : a.cluster = r.idx)
        IN IF m = <<>>
           THEN << [idx |-> r.idx, val |-> r.val @@ [c \in Range(aggcols) |-> NaN]] >>
           ELSE [j \in 1..Len(m) |-> [idx |-> r.idx, val |-> r.val @@ m[j].val]]])]

\* the zero-fill left out
FillNaKeep(frame) == frame

\* z1.fillna(0, inplace=True); the buffer's own columns hold no missing value

FillNa(frame) ==
    [cols |-> frame.cols,
     rows |-> [i \in 1..Len(frame.rows) |->
        [idx |-> frame.rows[i].idx,
         val |-> [c \in DOMAIN frame.rows[i].val |->
                    IF c \in Range(BufferCols) THEN frame.rows[i].val[c]
                    ELSE IF IsNaN(frame.rows[i].val[c]) THEN Num(0)
                    ELSE frame.rows[i].val[c]]]]]

\* left.merge(right, left_index=True, right_index=True)
MergeOnIndex(left, right) ==
    [cols |-> left.cols \o right.cols,
     rows |-> Flatten([i \in 1..Len(left.rows) |->
        LET r == left.rows[i]
            m == SelectSeq(right.rows, LAMBDA a : a.idx = r.idx)
        IN [j \in 1..Len(m) |-> [idx |-> r.idx, val |-> r.val @@ m[j].val]]])]

\* left.merge(right, on=geom_id) with right indexed by geom_id; a fresh
\* RangeIndex labels the result
MergeOnGeomId(left, right) ==
    LET rows == Flatten([i \in 1..Len(left.rows) |->
            LET r == left.rows[i]
                m == SelectSeq(right.rows, LAMBDA a : a.idx = r.val[GeomIdCol])
            IN [j \in 1..Len(m) |-> r.val @@ m[j].val]])
    IN [cols |-> left.cols \o right.cols,
        rows |-> [k \in 1..Len(rows) |-> [idx |-> k, val |-> rows[k]]]]

\* ---------------------------------------------------- category resolver
\* crosswalk.loc[crosswalk["group"] == "0", "group"] = "other"
RewriteZero(xw) ==
    [k \in 1..Len(xw) |->
        [type |-> xw[k].type, group |-> IF xw[k].group = "0" THEN "other" ELSE xw[k].group]]

\* raw.merge(crosswalk, left_on="fclass", right_on="type", how="left")
MergeCrosswalk(rawf, xw) ==
    Flatten([i \in 1..Len(rawf) |->
        LET m == SelectSeq(xw, LAMBDA x : x.type = rawf[i].fclass)
        IN IF m = <<>>
           THEN << rawf[i] @@ [type |-> NA, group |-> NA] >>
           ELSE [j \in 1..Len(m) |-> rawf[i] @@ [type |-> m[j].type, group |-> m[j].group]]])

\* geo.loc[geo["fclass"].isna(), "group"] = "unclassified"
AssignUnclassified(g) ==
    [i \in 1..Len(g) |->
        IF g[i].fclass = NA THEN [g[i] EXCEPT !.group = "unclassified"] ELSE g[i]]

\* lines 106-111 (178-183, 249-254, 317-322, 427-432)
Classify(rawf, xw) == AssignUnclassified(MergeCrosswalk(rawf, RewriteZero(xw)))

\* [i for i in set(geo["group"]) if pd.notnull(i)]
CountGroups(g) == {g[i].group : i \in 1..Len(g)} \ {NA}

\* geo.loc[geo["group"] == group].reset_index()
Subset(g, group) == SelectSeq(g, LAMBDA r : r.group = group)

\* --------------------------------------------------- bulk spatial join
\* subset.sindex.query_bulk(buffers_gdf.geometry): no predicate is given, so a
\* pair is returned when the bounding rectangles intersect
QueryBulk(sub, buffers) ==
    Flatten([b \in 1..Len(buffers.rows) |->
        LET hit == SelectSeq([j \in 1..Len(sub) |-> j], LAMBDA j :
                     BBoxIntersects(BBox(buffers.rows[b].val[<<"geometry">>]),
                                    BBox(Range(sub[j].geometry))))
        IN [k \in 1..Len(hit) |-> [cluster |-> b, feat |-> hit[k]]]])

\* the clusters of a join result, ascending (the groups of groupby("cluster"))
Clusters(bq) ==
    SelectSeq([b \in 1..NumBuffers |-> b], LAMBDA b : \E k \in 1..Len(bq) : bq[k].cluster = b)

\* bquery_df.merge(subset, ...).groupby("cluster").agg({<feat>: "count"})
AggCount(bq, f, group) ==
    LET cl == Clusters(bq)
    IN [k \in 1..Len(cl) |->
          [cluster |-> cl[k],
           val |-> (<<group, f, "count">> :>
                      Num(Len(SelectSeq(bq, LAMBDA p : p.cluster = cl[k]))))]]

\* ------------------------------------------------------------- state
VARIABLES
    pc,                \* position in the script
    family,            \* the family section being run
    buffers_gdf,       \* the buffer collection (lines 78-86)
    raw,               \* <family>_geo_raw
    type_crosswalk_df, \* <family>_type_crosswalk_df
    geo,               \* <family>_geo: the classified features
    group_list,        \* <family>_group_list
    gi,                \* position of the running group loop in group_list
    subset,            \* <family>_geo_subset of the last group pass
    bquery,            \* join pairs of the last group pass
    buffers_gdf_fam,   \* buffers_gdf_<family>: the per-family copy
    src_points,        \* roads: query points of the nearest-vertex search
    cluster_centroids, \* roads: nearest-vertex columns
    features           \* <family>_features: the table written to csv

vars ==
    <<pc, family, buffers_gdf, raw, type_crosswalk_df, geo, group_list, gi, subset, bquery,
      buffers_gdf_fam, src_points, cluster_centroids, features>>

FamilyOrder == <<"pois", "traffic", "transport", "buildings", "roads">>

\* the section after family f, "done" after the last one
NextPc(f) ==
    LET k == CHOOSE k \in 1..Len(FamilyOrder) : FamilyOrder[k] = f
    IN IF k = Len(FamilyOrder) THEN "done" ELSE "classify"

NextFamily(f) ==
    LET k == CHOOSE k \in 1..Len(FamilyOrder) : FamilyOrder[k] = f
    IN IF k = Len(FamilyOrder) THEN f ELSE FamilyOrder[k + 1]

Init ==
    /\ pc = "read_buffers"
    /\ family = "pois"
    /\ buffers_gdf = EmptyFrame
    /\ raw = <<>>
    /\ type_crosswalk_df = <<>>
    /\ geo = <<>>
    /\ group_list = <<>>
    /\ gi = 1
    /\ subset = <<>>
    /\ bquery = <<>>
    /\ buffers_gdf_fam = EmptyFrame
    /\ src_points = <<>>
    /\ cluster_centroids = EmptyFrame
    /\ features = EmptyFrame

\* lines 78-86: load the buffers, take area and centroid in the projected CRS
ReadBuffers ==
    /\ pc = "read_buffers"
    /\ \E c \in BufferLayouts :
         buffers_gdf' = [cols |-> BufferCols,
                         rows |-> [i \in 1..NumBuffers |-> [idx |-> i, val |-> BufferRow(i, c[i])]]]
    /\ pc' = "classify"
    /\ UNCHANGED <<family, raw, type_crosswalk_df, geo, group_list, gi, subset, bquery,
                   buffers_gdf_fam, src_points, cluster_centroids, features>>

\* ------------------------------------- pois / traffic / transport section
\* lines 98-124 (170-196, 241-267): read, classify, list the groups, copy buffers
ClassifyCount(f) ==
    /\ pc = "classify" /\ family = f /\ f \in CountFamilies
    /\ \E rawf \in RawFrames(f), xw \in Crosswalks :
         /\ raw' = rawf
         /\ type_crosswalk_df' = RewriteZero(xw)
         /\ geo' = Classify(rawf, xw)
         /\ group_list' \in Perms(CountGroups(Classify(rawf, xw)))
    /\ buffers_gdf_fam' = buffers_gdf
    /\ gi' = 1
    /\ subset' = <<>>
    /\ bquery' = <<>>
    /\ features' = EmptyFrame
    /\ pc' = "groups"
    /\ UNCHANGED <<family, buffers_gdf, src_points, cluster_centroids>>

\* lines 143-148: z1 and z2 of one group of a count family
GroupColumnCount(buffers, bq, f, group) ==
    Project(FillNa(MergeAgg(buffers, AggCount(bq, f, group), << <<group, f, "count">> >>)),
            << <<group, f, "count">> >>)

\* lines 126-150 (198-222, 269-293): one pass of the group loop
GroupCount(f) ==
    /\ pc = "groups" /\ family = f /\ f \in CountFamilies
    /\ gi <= Len(group_list)
    /\ LET group == group_list[gi]
           sub == Subset(geo, group)
           bq == QueryBulk(sub, buffers_gdf)
       IN /\ subset' = sub
          /\ bquery' = bq
          /\ buffers_gdf_fam' =
                MergeOnIndex(buffers_gdf_fam, GroupColumnCount(buffers_gdf, bq, f, group))
    /\ gi' = gi + 1
    /\ UNCHANGED <<pc, family, buffers_gdf, raw, type_crosswalk_df, geo, group_list,
                   src_points, cluster_centroids, features>>

\* [i for i in buffers_gdf_<family>.columns if "_<family>_" in i]
FeatureCols(frame, f) == SelectSeq(frame.cols, LAMBDA c : IsFamilyCol(c, f))

\* lines 153-156: the output table of a count family
CountFeatures(frame, f) ==
    LET fcols == FeatureCols(frame, f)
        t0 == Project(frame, <<GeomIdCol>> \o fcols)
    IN WithColumn(t0, <<"all", f, "count">>,
                  [i \in 1..Len(t0.rows) |-> SumSkipNa(Cells(Vals(t0)[i], fcols))])

\* lines 153-158 (225-230, 296-301): assemble and write the family's table
OutputCount(f) ==
    /\ pc = "groups" /\ family = f /\ f \in CountFamilies
    /\ gi > Len(group_list)
    /\ features' = CountFeatures(buffers_gdf_fam, f)
    /\ pc' = "written"
    /\ UNCHANGED <<family, buffers_gdf, raw, type_crosswalk_df, geo, group_list, gi, subset, bquery,
                   buffers_gdf_fam, src_points, cluster_centroids>>

\* line 158 (230, 301, 405, 535): to_csv; the section's frames are read by no
\* later section, so they are dropped here and the next section starts
WriteCsv ==
    /\ pc = "written"
    /\ pc' = NextPc(family)
    /\ family' = NextFamily(family)
    /\ raw' = <<>>
    /\ type_crosswalk_df' = <<>>
    /\ geo' = <<>>
    /\ group_list' = <<>>
    /\ gi' = 1
    /\ subset' = <<>>
    /\ bquery' = <<>>
    /\ buffers_gdf_fam' = EmptyFrame
    /\ src_points' = <<>>
    /\ cluster_centroids' = EmptyFrame
    /\ features' = EmptyFrame
    /\ UNCHANGED buffers_gdf

\* ------------------------------------------------------ buildings section
\* lines 333-335: the groups that are building types
BuildingGroups(g) == {g[i].group : i \in 1..Len(g)} \ {"other", "unclassified", NA}

\* lines 342-348: keep the listed groups, take each building's projected area
BuildingsGeo(g) ==
    LET kept == SelectSeq(g, LAMBDA r : r.group \in BuildingGroups(g))
    IN [i \in 1..Len(kept) |->
          kept[i] @@ [area |-> Area({ToUTM(q) : q \in Range(kept[i].geometry)})]]

\* lines 312-352
ClassifyBuildings ==
    /\ pc = "classify" /\ family = "buildings"
    /\ \E rawf \in RawFrames("buildings"), xw \in Crosswalks :
         /\ raw' = rawf
         /\ type_crosswalk_df' = RewriteZero(xw)
         /\ geo' = BuildingsGeo(Classify(rawf, xw))
         /\ group_list' \in Perms(BuildingGroups(Classify(rawf, xw)))
    /\ buffers_gdf_fam' = buffers_gdf
    /\ gi' = 1
    /\ subset' = <<>>
    /\ bquery' = <<>>
    /\ features' = EmptyFrame
    /\ pc' = "groups"
    /\ UNCHANGED <<family, buffers_gdf, src_points, cluster_centroids>>

BasicBuildingCols(group) ==
    << <<group, "buildings", "count">>, <<group, "buildings", "avgarea">>,
       <<group, "buildings", "totalarea">> >>

\* lines 366-373: groupby("cluster").agg({"area": ["count", "mean", "sum"]})
AggArea(bq, sub, group) ==
    LET cl == Clusters(bq)
    IN [k \in 1..Len(cl) |->
          LET ps == SelectSeq(bq, LAMBDA p : p.cluster = cl[k])
              total == SumInts([n \in 1..Len(ps) |-> sub[ps[n].feat].area])
          IN [cluster |-> cl[k],
              val |-> (<<group, "buildings", "count">> :> Num(Len(ps)))
                   @@ (<<group, "buildings", "avgarea">> :> Div(Num(total), Num(Len(ps))))
                   @@ (<<group, "buildings", "totalarea">> :> Num(total))]]

\* lines 375-382: z1 and z2 of one building group
GroupColumnsBuildings(buffers, bq, sub, group) ==
    LET z1 == FillNa(MergeAgg(buffers, AggArea(bq, sub, group), BasicBuildingCols(group)))
        zr == WithColumn(z1, <<group, "buildings", "ratio">>,
                 [i \in 1..Len(z1.rows) |->
                    Div(Vals(z1)[i][<<group, "buildings", "totalarea">>],
                        Num(Vals(z1)[i][<<"buffer_area">>]))])
    IN Project(zr, BasicBuildingCols(group) \o << <<group, "buildings", "ratio">> >>)

\* lines 354-384: one pass of the group loop
GroupBuildings ==
    /\ pc = "groups" /\ family = "buildings"
    /\ gi <= Len(group_list)
    /\ LET group == group_list[gi]
           sub == Subset(geo, group)
           bq == QueryBulk(sub, buffers_gdf)
       IN /\ subset' = sub
          /\ bquery' = bq
          /\ buffers_gdf_fam' =
                MergeOnIndex(buffers_gdf_fam, GroupColumnsBuildings(buffers_gdf, bq, sub, group))
    /\ gi' = gi + 1
    /\ UNCHANGED <<pc, family, buffers_gdf, raw, type_crosswalk_df, geo, group_list,
                   src_points, cluster_centroids, features>>

\* column.fillna(0, inplace=True)
FillNaColumn(frame, name) ==
    WithColumn(frame, name,
        [i \in 1..Len(frame.rows) |->
            IF IsNaN(Vals(frame)[i][name]) THEN Num(0) ELSE Vals(frame)[i][name]])

\* left.merge(buffers_gdf[[geom_id, "buffer_area"]], on=geom_id, how="left")
MergeBufferArea(left, buffers) ==
    LET rows == Flatten([i \in 1..Len(left.rows) |->
            LET r == left.rows[i]
                m == SelectSeq(buffers.rows, LAMBDA a : a.val[GeomIdCol] = r.val[GeomIdCol])
            IN IF m = <<>>
               THEN << r.val @@ (<<"buffer_area">> :> NaN) >>
               ELSE [j \in 1..Len(m) |->
                       r.val @@ (<<"buffer_area">> :> Num(m[j].val[<<"buffer_area">>]))]])
    IN [cols |-> Append(left.cols, <<"buffer_area">>),
        rows |-> [k \in 1..Len(rows) |-> [idx |-> k, val |-> rows[k]]]]

\* every column with "area" in its name in place of endswith('_buildings_totalarea')
TotalAreaColsAnyArea(fcols) ==
    SelectSeq(fcols, LAMBDA c : c[3] \in {"totalarea", "avgarea"})

\* line 397: [i for i in buildings_feature_cols if i.endswith('_buildings_totalarea')]
TotalAreaCols(fcols) ==
    SelectSeq(fcols, LAMBDA c : EndsWith(c, "buildings", "totalarea"))

\* lines 388-401: the output table of the buildings family
BuildingsFeatures(frame, buffers) ==
    LET fcols == FeatureCols(frame, "buildings")
        ccols == SelectSeq(fcols, LAMBDA c : EndsWith(c, "buildings", "count"))
        tcols == TotalAreaCols(fcols)
        t0 == Project(frame, <<GeomIdCol>> \o fcols)
        t1 == WithColumn(t0, <<"all", "buildings", "count">>,
                [i \in 1..Len(t0.rows) |-> SumSkipNa(Cells(Vals(t0)[i], ccols))])
        t2 == WithColumn(t1, <<"all", "buildings", "totalarea">>,
                [i \in 1..Len(t1.rows) |-> SumSkipNa(Cells(Vals(t1)[i], tcols))])
        t3 == WithColumn(t2, <<"all", "buildings", "avgarea">>,
                [i \in 1..Len(t2.rows) |->
                    Div(Vals(t2)[i][<<"all", "buildings", "totalarea">>],
                        Vals(t2)[i][<<"all", "buildings", "count">>])])
        t4 == FillNaColumn(t3, <<"all", "buildings", "avgarea">>)
        t5 == MergeBufferArea(t4, buffers)
    IN WithColumn(t5, <<"all", "buildings", "ratio">>,
            [i \in 1..Len(t5.rows) |->
                Div(Vals(t5)[i][<<"all", "buildings", "totalarea">>],
                    Vals(t5)[i][<<"buffer_area">>])])

\* lines 388-405
OutputBuildings ==
    /\ pc = "groups" /\ family = "buildings"
    /\ gi > Len(group_list)
    /\ features' = BuildingsFeatures(buffers_gdf_fam, buffers_gdf)
    /\ pc' = "written"
    /\ UNCHANGED <<family, buffers_gdf, raw, type_crosswalk_df, geo, group_list, gi, subset, bquery,
                   buffers_gdf_fam, src_points, cluster_centroids>>

\* ---------------------------------------------------------- roads section
min_road_features == 0

\* lines 420-422: each road's length in the projected CRS
WithRoadLength(rawf) ==
    [i \in 1..Len(rawf) |->
        rawf[i] @@ [road_length |->
            RoadLength([k \in 1..Len(rawf[i].geometry) |-> ToUTM(rawf[i].geometry[k])])]]

\* roads_geo["group"].value_counts(): rows per non-missing group
ValueCount(g, group) == Len(SelectSeq(g, LAMBDA r : r.group = group))

\* line 443: the groups with more than min_road_features rows, most frequent first
RoadGroupLists(g) ==
    LET qualifying == {grp \in {g[i].group : i \in 1..Len(g)} \ {NA} :
                          ValueCount(g, grp) > min_road_features}
    IN {p \in Perms(qualifying) :
          \A i, j \in 1..Len(p) : i < j => ValueCount(g, p[i]) >= ValueCount(g, p[j])}

\* line 455: (x.longitude, x.latitude) of every row of cluster_centroids
SrcPoints(frame) ==
    [i \in 1..Len(frame.rows) |->
        <<frame.rows[i].val[<<"longitude">>], frame.rows[i].val[<<"latitude">>]>>]

\* lines 416-455
ClassifyRoads ==
    /\ pc = "classify" /\ family = "roads"
    /\ \E rawf \in RawFrames("roads"), xw \in Crosswalks :
         /\ raw' = WithRoadLength(rawf)
         /\ type_crosswalk_df' = RewriteZero(xw)
         /\ geo' = Classify(WithRoadLength(rawf), xw)
         /\ group_list' \in RoadGroupLists(Classify(WithRoadLength(rawf), xw))
    /\ cluster_centroids' = buffers_gdf
    /\ src_points' = SrcPoints(buffers_gdf)
    /\ gi' = 1
    /\ subset' = <<>>
    /\ bquery' = <<>>
    /\ buffers_gdf_fam' = EmptyFrame
    /\ features' = EmptyFrame
    /\ pc' = "nearest"
    /\ UNCHANGED <<family, buffers_gdf>>

\* lines 466-469: one (osm_id, x, y) record per vertex of every line of the subset
LineXYLookup(sub) ==
    Flatten([i \in 1..Len(sub) |->
        [k \in 1..Len(sub[i].geometry) |->
            [osm_id |-> sub[i].osm_id, x |-> sub[i].geometry[k][1], y |-> sub[i].geometry[k][2]]]])

\* lines 472-479: tree.query(src_points, k=1); the positions a query may return
\* for one source point (any vertex at minimum distance)
Closest(lookup, src) ==
    {n \in 1..Len(lookup) :
        \A m \in 1..Len(lookup) :
            Haversine(src, <<lookup[n].x, lookup[n].y>>) <= Haversine(src, <<lookup[m].x, lookup[m].y>>)}

\* line 478: the arrays `closest` the query may return, one position per source point
RECURSIVE Choices(_)
Choices(sets) ==
    IF sets = <<>> THEN {<<>>}
    ELSE {<<x>> \o r : x \in Head(sets), r \in Choices(Tail(sets))}

\* cluster_centroids bound to buffers_gdf itself: a write to it is a write to both
AfterWriteToAlias(buffers, written) == written

\* line 453: cluster_centroids is buffers_gdf.copy(deep=True), so the column
\* assignments of lines 483-484 leave buffers_gdf as it was
AfterWriteToCopy(buffers, written) == buffers

\* lines 458-484: one pass of the nearest-vertex loop
NearestRoads ==
    /\ pc = "nearest" /\ family = "roads"
    /\ gi <= Len(group_list)
    /\ LET group == group_list[gi]
           sub == Subset(geo, group)
           lookup == LineXYLookup(sub)
       IN /\ subset' = sub
          /\ \E closest \in Choices([b \in 1..Len(src_points) |-> Closest(lookup, src_points[b])]) :
               /\ cluster_centroids' =
                    [cols |-> cluster_centroids.cols
                                \o << <<group, "roads", "nearest-osmid">>,
                                      <<group, "roads", "nearestdist">> >>,
                     rows |-> [b \in 1..Len(cluster_centroids.rows) |->
                        [idx |-> cluster_centroids.rows[b].idx,
                         val |-> cluster_centroids.rows[b].val
                              @@ (<<group, "roads", "nearest-osmid">> :> lookup[closest[b]].osm_id)
                              @@ (<<group, "roads", "nearestdist">> :>
                                    Num(Haversine(src_points[b],
                                          <<lookup[closest[b]].x, lookup[closest[b]].y>>)))]]]
    /\ buffers_gdf' = AfterWriteToCopy(buffers_gdf, cluster_centroids')
    /\ gi' = gi + 1
    /\ UNCHANGED <<pc, family, raw, type_crosswalk_df, geo, group_list, bquery,
                   buffers_gdf_fam, src_points, features>>

\* lines 488-489: keep geom_id and the "_roads_" columns, index by geom_id
SelectCentroids(frame) ==
    LET rcols == FeatureCols(frame, "roads")
    IN [cols |-> rcols,
        rows |-> [i \in 1..Len(frame.rows) |->
                    [idx |-> frame.rows[i].val[GeomIdCol],
                     val |-> [c \in Range(rcols) |-> frame.rows[i].val[c]]]]]

\* lines 488-496: end of the nearest loop, copy of the buffers for the counts
EndNearest ==
    /\ pc = "nearest" /\ family = "roads"
    /\ gi > Len(group_list)
    /\ cluster_centroids' = SelectCentroids(cluster_centroids)
    /\ buffers_gdf_fam' = buffers_gdf
    /\ gi' = 1
    /\ pc' = "groups"
    /\ UNCHANGED <<family, buffers_gdf, raw, type_crosswalk_df, geo, group_list, subset, bquery,
                   src_points, features>>

\* line 509: bquery_df.merge(<frame>, left_on="roads", right_index=True, how="left"):
\* the road_length joined to each pair; the frame the script passes is roads_geo
JoinedLength(frame, pair) ==
    IF pair.feat \in 1..Len(frame) THEN Num(frame[pair.feat].road_length) ELSE NaN

\* lines 509-512: groupby("cluster").agg({"road_length": ["count", "sum"]})
AggRoads(bq, frame, group) ==
    LET cl == Clusters(bq)
    IN [k \in 1..Len(cl) |->
          LET ps == SelectSeq(bq, LAMBDA p : p.cluster = cl[k])
              ls == [n \in 1..Len(ps) |-> JoinedLength(frame, ps[n])]
          IN [cluster |-> cl[k],
              val |-> (<<group, "roads", "count">> :>
                          Num(Len(SelectSeq(ls, LAMBDA v : ~IsNaN(v)))))
                   @@ (<<group, "roads", "length">> :> SumSkipNa(ls))]]

RoadCols(group) == << <<group, "roads", "count">>, <<group, "roads", "length">> >>

\* lines 514-519: z1 and z2 of one road group
GroupColumnsRoads(buffers, bq, frame, group) ==
    Project(FillNa(MergeAgg(buffers, AggRoads(bq, frame, group), RoadCols(group))),
            RoadCols(group))

\* lines 498-521: one pass of the count/length loop
GroupRoads ==
    /\ pc = "groups" /\ family = "roads"
    /\ gi <= Len(group_list)
    /\ LET group == group_list[gi]
           sub == Subset(geo, group)
           bq == QueryBulk(sub, buffers_gdf)
       IN /\ subset' = sub
          /\ bquery' = bq
          /\ buffers_gdf_fam' =
                MergeOnIndex(buffers_gdf_fam, GroupColumnsRoads(buffers_gdf, bq, geo, group))
    /\ gi' = gi + 1
    /\ UNCHANGED <<pc, family, buffers_gdf, raw, type_crosswalk_df, geo, group_list,
                   src_points, cluster_centroids, features>>

\* lines 525-532: the output table of the roads family
RoadsFeatures(frame, centroids) ==
    LET merged == MergeOnGeomId(frame, centroids)
        fcols == FeatureCols(merged, "roads")
        t0 == Project(merged, <<GeomIdCol>> \o fcols)
        lcols == SelectSeq(fcols, LAMBDA c : EndsWith(c, "roads", "length"))
        ccols == SelectSeq(fcols, LAMBDA c : EndsWith(c, "roads", "count"))
        dcols == SelectSeq(fcols, LAMBDA c : EndsWith(c, "roads", "nearestdist"))
        t1 == WithColumn(t0, <<"all", "roads", "length">>,
                [i \in 1..Len(t0.rows) |-> SumSkipNa(Cells(Vals(t0)[i], lcols))])
        t2 == WithColumn(t1, <<"all", "roads", "count">>,
                [i \in 1..Len(t1.rows) |-> SumSkipNa(Cells(Vals(t1)[i], ccols))])
    IN WithColumn(t2, <<"all", "roads", "nearestdist">>,
            [i \in 1..Len(t2.rows) |-> MinSkipNa(Cells(Vals(t2)[i], dcols))])

\* lines 525-535
OutputRoads ==
    /\ pc = "groups" /\ family = "roads"
    /\ gi > Len(group_list)
    /\ features' = RoadsFeatures(buffers_gdf_fam, cluster_centroids)
    /\ pc' = "written"
    /\ UNCHANGED <<family, buffers_gdf, raw, type_crosswalk_df, geo, group_list, gi, subset, bquery,
                   buffers_gdf_fam, src_points, cluster_centroids>>

Next ==
    \/ ReadBuffers
    \/ \E f \in CountFamilies : ClassifyCount(f)
    \/ \E f \in CountFamilies : GroupCount(f)
    \/ \E f \in CountFamilies : OutputCount(f)
    \/ ClassifyBuildings
    \/ GroupBuildings
    \/ OutputBuildings
    \/ ClassifyRoads
    \/ NearestRoads
    \/ EndNearest
    \/ GroupRoads
    \/ OutputRoads
    \/ WriteCsv

Spec == Init /\ [][Next]_vars

\* =================================================================
\* Properties
\* =================================================================
\* the group whose pass of the running loop finished last
LastGroup == group_list[gi - 1]

\* the join pairs of the last pass that name buffer b
PairsOf(b) == SelectSeq(bquery, LAMBDA p : p.cluster = b)

\* the per-group "_count" columns of the output table
GroupCountCols ==
    SelectSeq(features.cols, LAMBDA c : Len(c) = 3 /\ c[1] # "all" /\ c[3] = "count")

\* C1: in every family's output table and for every buffer row, all_<family>_count
\* equals the sum of the row's per-group <group>_<family>_count cells.
C1_AllCountIsSum ==
    pc = "written" =>
        \A i \in 1..Len(features.rows) :
            features.rows[i].val[<<"all", family, "count">>]
                = SumSeq(Cells(features.rows[i].val, GroupCountCols))

C1_Witness ==
    /\ pc = "written"
    /\ Len(GroupCountCols) >= 2
    /\ \E i \in 1..Len(features.rows) :
         /\ features.rows[i].val[<<"all", family, "count">>] = Num(2)
         /\ \A k \in 1..Len(GroupCountCols) :
              features.rows[i].val[GroupCountCols[k]] = Num(1)

\* every buffer of buffers_gdf has exactly one row in the frame
EachBufferOnce(frame) ==
    /\ Len(frame.rows) = Len(buffers_gdf.rows)
    /\ \A b \in 1..Len(buffers_gdf.rows) :
         Cardinality({i \in 1..Len(frame.rows) :
             frame.rows[i].val[GeomIdCol] = buffers_gdf.rows[b].val[GeomIdCol]}) = 1

\* C2: every buffer appears in exactly one row of the per-family frame after
\* every group merge, and in exactly one row of every family's output table,
\* also when no feature of any group was joined to it.
C2_EachBufferExactlyOnce ==
    /\ pc = "groups" => EachBufferOnce(buffers_gdf_fam)
    /\ pc = "written" => EachBufferOnce(features)

C2_Witness ==
    /\ pc = "written"
    /\ Len(group_list) >= 1
    /\ \E i, j \in 1..Len(features.rows) :
         /\ features.rows[i].val[<<"all", family, "count">>] = Num(0)
         /\ features.rows[j].val[<<"all", family, "count">>] # Num(0)

\* C3: after a group pass, a (buffer, feature) pair is among the join pairs
\* exactly when the feature's geometry intersects the buffer's polygon.
C3_JoinIffIntersects ==
    (pc \in {"groups", "written"} /\ gi > 1) =>
        \A b \in 1..Len(buffers_gdf.rows), j \in 1..Len(subset) :
            (\E k \in 1..Len(bquery) : bquery[k] = [cluster |-> b, feat |-> j])
                <=> Intersects(buffers_gdf.rows[b].val[<<"geometry">>], subset[j].geometry)

\* C4: after a road group pass, the group's count is the number of lines of
\* the group joined to the buffer and its length is the sum of the projected
\* lengths of those same lines.
C4_RoadsCountAndLength ==
    (family = "roads" /\ pc \in {"groups", "written"} /\ gi > 1) =>
        \A b \in 1..Len(buffers_gdf_fam.rows) :
            LET ps == PairsOf(buffers_gdf_fam.rows[b].idx)
            IN /\ buffers_gdf_fam.rows[b].val[<<LastGroup, "roads", "count">>] = Num(Len(ps))
               /\ buffers_gdf_fam.rows[b].val[<<LastGroup, "roads", "length">>]
                    = Num(SumInts([n \in 1..Len(ps) |-> subset[ps[n].feat].road_length]))

\* the section has classified its features
Classified == pc \in {"nearest", "groups", "written"}

\* C5: a classified feature whose raw type is missing, or has no row in the
\* crosswalk, carries the group "unclassified".
C5_UnmappedIsUnclassified ==
    Classified =>
        \A i \in 1..Len(geo) :
            (\/ geo[i].fclass = NA
             \/ ~\E k \in 1..Len(type_crosswalk_df) : type_crosswalk_df[k].type = geo[i].fclass)
                => geo[i].group = "unclassified"

\* C6: after classification (pois, traffic, transport, roads) every input
\* record is present exactly once and carries a non-missing group.
C6_ClassificationKeepsEachFeatureOnce ==
    (Classified /\ family # "buildings") =>
        /\ Len(geo) = Len(raw)
        /\ \A i \in 1..Len(geo) : geo[i].osm_id = raw[i].osm_id /\ geo[i].group # NA

\* the centroid of buffer row b in geographic coordinates (longitude, latitude)
CentroidLonLat(b) ==
    FromUTM(Centroid({ToUTM(p) : p \in buffers_gdf.rows[b].val[<<"geometry">>]}))

\* C7: after a pass of the nearest loop, the group's nearest-osmid of every
\* buffer is the id of a line owning a vertex of the group at minimum distance
\* from the buffer's centroid, and nearestdist is the distance to that vertex.
C7_NearestVertexOfCentroid ==
    (family = "roads" /\ pc = "nearest" /\ gi > 1) =>
        LET lookup == LineXYLookup(subset)
        IN \A b \in 1..Len(cluster_centroids.rows) :
             \E n \in 1..Len(lookup) :
                /\ \A m \in 1..Len(lookup) :
                      Haversine(CentroidLonLat(b), <<lookup[n].x, lookup[n].y>>)
                        <= Haversine(CentroidLonLat(b), <<lookup[m].x, lookup[m].y>>)
                /\ cluster_centroids.rows[b].val[<<LastGroup, "roads", "nearest-osmid">>]
                      = lookup[n].osm_id
                /\ cluster_centroids.rows[b].val[<<LastGroup, "roads", "nearestdist">>]
                      = Num(Haversine(CentroidLonLat(b), <<lookup[n].x, lookup[n].y>>))

\* C8: the query points of the nearest-vertex search are the buffer centroids
\* in geographic coordinates.
C8_SrcPointsGeographic ==
    (family = "roads" /\ pc \in {"nearest", "groups", "written"}) =>
        \A b \in 1..Len(src_points) : src_points[b] = CentroidLonLat(b)

\* C9: in the roads table, all_roads_nearestdist of every buffer is the least
\* of the per-group nearestdist cells of its row; with no qualifying group it
\* is missing, not zero.
C9_AllNearestDistIsMin ==
    (family = "roads" /\ pc = "written") =>
        \A i \in 1..Len(features.rows) :
            LET v == features.rows[i].val
                all == v[<<"all", "roads", "nearestdist">>]
            IN IF group_list = <<>>
               THEN IsNaN(all)
               ELSE /\ \E g \in Range(group_list) : all = v[<<g, "roads", "nearestdist">>]
                    /\ \A g \in Range(group_list) : ~Less(v[<<g, "roads", "nearestdist">>], all)

C9_Witness ==
    /\ family = "roads" /\ pc = "written"
    /\ Len(group_list) = 2
    /\ \E i \in 1..Len(features.rows) :
         LET v == features.rows[i].val
         IN /\ Less(v[<<group_list[2], "roads", "nearestdist">>],
                    v[<<group_list[1], "roads", "nearestdist">>])
            /\ v[<<"all", "roads", "nearestdist">>] = v[<<group_list[2], "roads", "nearestdist">>]

\* C10: after a group pass, every cell of the group's columns is exactly 0 in
\* the row of a buffer with no join pair; in the buildings table
\* all_buildings_avgarea is 0 wherever all_buildings_count is 0.
C10_SparseIsZero ==
    /\ (pc = "groups" /\ gi > 1) =>
          \A b \in 1..Len(buffers_gdf_fam.rows) :
              PairsOf(buffers_gdf_fam.rows[b].idx) = <<>> =>
                  \A c \in Range(buffers_gdf_fam.cols) :
                      (Len(c) = 3 /\ c[1] = LastGroup) => buffers_gdf_fam.rows[b].val[c] = Num(0)
    /\ (pc = "written" /\ family = "buildings") =>
          \A i \in 1..Len(features.rows) :
              features.rows[i].val[<<"all", "buildings", "count">>] = Num(0)
                  => features.rows[i].val[<<"all", "buildings", "avgarea">>] = Num(0)

C10_Witness ==
    /\ pc = "written" /\ family = "buildings"
    /\ Len(group_list) >= 1
    /\ bquery = <<>>
    /\ \E i \in 1..Len(features.rows) :
         /\ features.rows[i].val[<<"all", "buildings", "count">>] = Num(0)
         /\ features.rows[i].val[<<"all", "buildings", "avgarea">>] = Num(0)
         /\ features.rows[i].val[<<LastGroup, "buildings", "ratio">>] = Num(0)

\* the buffer_area of the buffer of buffers_gdf with the given identifier
BufferAreaOf(id) ==
    LET b == CHOOSE b \in 1..Len(buffers_gdf.rows) : buffers_gdf.rows[b].val[GeomIdCol] = id
    IN buffers_gdf.rows[b].val[<<"buffer_area">>]

PassColumns(f, group) ==
    LET sub == Subset(geo, group)
        bq == QueryBulk(sub, buffers_gdf)
    IN IF f \in CountFamilies THEN GroupColumnCount(buffers_gdf, bq, f, group)
       ELSE IF f = "buildings" THEN GroupColumnsBuildings(buffers_gdf, bq, sub, group)
       ELSE GroupColumnsRoads(buffers_gdf, bq, geo, group)

\* the per-family copy after the group passes taken in the given order
RECURSIVE RunPasses(_, _, _)
RunPasses(frame, f, order) ==
    IF order = <<>> THEN frame
    ELSE RunPasses(MergeOnIndex(frame, PassColumns(f, Head(order))), f, Tail(order))

\* the nearest-vertex columns of the roads section, appended in the given order
CentroidsFor(order) ==
    [cols |-> Flatten([k \in 1..Len(order) |->
                 << <<order[k], "roads", "nearest-osmid">>, <<order[k], "roads", "nearestdist">> >>]),
     rows |-> cluster_centroids.rows]

\* the family's final table when its groups are processed in the given order
OutputFor(f, order) ==
    LET frame == RunPasses(buffers_gdf, f, order)
    IN IF f \in CountFamilies THEN CountFeatures(frame, f)
       ELSE IF f = "buildings" THEN BuildingsFeatures(frame, buffers_gdf)
       ELSE RoadsFeatures(frame, CentroidsFor(order))

\* the orders in which the section may process the groups it has listed
GroupOrders ==
    IF family = "roads" THEN RoadGroupLists(geo) ELSE Perms(Range(group_list))

\* C12: for the same buffers, features and crosswalk, every order of the
\* family's groups yields the table that was written: same rows, same columns
\* in the same positions, same values.
C12_OrderIndependent ==
    pc = "written" => \A order \in GroupOrders : OutputFor(family, order) = features

\* the road groups whose number of features exceeds the threshold
IncludedRoadGroups ==
    {grp \in {geo[i].group : i \in 1..Len(geo)} \ {NA} : ValueCount(geo, grp) > min_road_features}

\* the groups that have a <group>_roads_<stat> column in the roads table
RoadGroupsWith(stat) ==
    {c[1] : c \in {d \in Range(features.cols) : EndsWith(d, "roads", stat) /\ d[1] # "all"}}

\* the roads table the section writes when the features of the excluded
\* groups are taken out of its input
RoadsWithoutExcluded ==
    LET kept == SelectSeq(geo, LAMBDA r : r.group \in IncludedRoadGroups)
        RECURSIVE Passes(_, _)
        Passes(frame, order) ==
            IF order = <<>> THEN frame
            ELSE LET bq == QueryBulk(Subset(kept, Head(order)), buffers_gdf)
                 IN Passes(MergeOnIndex(frame,
                               GroupColumnsRoads(buffers_gdf, bq, kept, Head(order))),
                           Tail(order))
    IN RoadsFeatures(Passes(buffers_gdf, group_list), cluster_centroids)

\* C13: in the roads table the groups with count columns, with length columns,
\* with nearest-osmid columns and with nearestdist columns, and the groups
\* aggregated into all_roads_count, all_roads_length and all_roads_nearestdist
\* are all the set of groups with more features than min_road_features, and
\* the features of the other groups contribute to no cell of the table.
C13_OneRoadGroupSet ==
    (family = "roads" /\ pc = "written") =>
        /\ \A stat \in {"count", "length", "nearest-osmid", "nearestdist"} :
              RoadGroupsWith(stat) = IncludedRoadGroups
        /\ Range(group_list) = IncludedRoadGroups
        /\ \A i \in 1..Len(features.rows) :
             LET v == features.rows[i].val
                 dist == v[<<"all", "roads", "nearestdist">>]
             IN /\ v[<<"all", "roads", "count">>]
                     = SumSeq([k \in 1..Len(group_list) |-> v[<<group_list[k], "roads", "count">>]])
                /\ v[<<"all", "roads", "length">>]
                     = SumSeq([k \in 1..Len(group_list) |-> v[<<group_list[k], "roads", "length">>]])
                /\ IF IncludedRoadGroups = {} THEN IsNaN(dist)
                   ELSE /\ dist \in {v[<<g, "roads", "nearestdist">>] : g \in IncludedRoadGroups}
                        /\ \A g \in IncludedRoadGroups :
                              ~Less(v[<<g, "roads", "nearestdist">>], dist)
        /\ features = RoadsWithoutExcluded

\* C14: once the buffers are loaded, no step of any section changes
\* buffers_gdf: its rows, identifiers, areas, centroids and columns stay as
\* they were, the passes writing to the per-family copies only.
C14_BuffersUnchangedAfterCreation ==
    [][pc # "read_buffers" => buffers_gdf' = buffers_gdf]_vars

C14_Witness ==
    /\ family = "roads" /\ pc = "written"
    /\ Len(group_list) = 2
    /\ \E c \in Range(cluster_centroids.cols) : EndsWith(c, "roads", "nearestdist")
    /\ \E c \in Range(buffers_gdf_fam.cols) : EndsWith(c, "roads", "length")
    /\ buffers_gdf.cols = BufferCols
    /\ Len(buffers_gdf.rows) = NumBuffers

====
